---- MODULE Spec2Model ----
(***************************************************************************)
(* Multi-perspective research assistant (src/main.py).                     *)
(*                                                                         *)
(* Strings are sequences of characters.  The literal keyword "QUESTION"    *)
(* and the fixed phrases of the f-strings are single elements of such a    *)
(* sequence: the keyword has no proper prefix that is also a suffix, so a  *)
(* scan for it never overlaps itself.  Python's None is the value None.    *)
(***************************************************************************)
EXTENDS Integers, Sequences, FiniteSets, TLC

\* ------------------------------------------------------------------ bounds
MaxInputs == 3
MaxTextLen == 4
MaxSegments == 4
MaxLines == 3
MaxFormatLen == 5
MaxColumnWidth == 4
MaxTerminalWidth == 18

\* ------------------------------------------------------- program constants
NumQuestions == 3
Perspectives == <<"scientific", "philosophical", "mathematical">>
NumPerspectives == Len(Perspectives)

None == <<"<None>">>

\* ---------------------------------------------------------- str primitives
Q == "QUESTION"
Whitespace == {" ", "\n", "\t"}
Digits == {"0", "1", "2", "3", "4", "5"}
IsSpace(c) == c \in Whitespace
IsDigit(c) == c \in Digits

Min(S) == CHOOSE x \in S : \A y \in S : x <= y

\* str.lower() on one character and on a string
LowerChar(c) ==
  CASE c = "E" -> "e"
    [] c = "X" -> "x"
    [] c = "I" -> "i"
    [] c = "T" -> "t"
    [] OTHER -> c
\* lower that changes nothing
LowerNothing(s) == s

Lower(s) == [i \in 1..Len(s) |-> LowerChar(s[i])]

\* first index >= i of s that holds no whitespace (Len(s)+1 when there is none)
SkipSpace(s, i) ==
  Min({j \in i..(Len(s) + 1) : j = Len(s) + 1 \/ ~IsSpace(s[j])})

\* last index <= i of s that holds no whitespace (0 when there is none)
SkipSpaceBack(s, i) ==
  -Min({-j : j \in {k \in 0..i : k = 0 \/ ~IsSpace(s[k])}})

\* strip that removes nothing
StripNothing(s) == s

\* str.strip()
Strip(s) ==
  LET a == SkipSpace(s, 1)
      b == SkipSpaceBack(s, Len(s))
  IN IF a > b THEN <<>> ELSE SubSeq(s, a, b)

\* the index of the first occurrence of c in s, 0 when there is none
IndexOf(s, c) ==
  IF \E i \in 1..Len(s) : s[i] = c
  THEN Min({i \in 1..Len(s) : s[i] = c})
  ELSE 0

\* str.split(sep) for a one-character separator
RECURSIVE Split(_, _)
Split(s, sep) ==
  LET i == IndexOf(s, sep)
  IN IF i = 0 THEN <<s>>
     ELSE <<SubSeq(s, 1, i - 1)>> \o Split(SubSeq(s, i + 1, Len(s)), sep)

\* s[:n]
Take(s, n) == SubSeq(s, 1, IF Len(s) < n THEN Len(s) ELSE n)

\* -------------------------------------------- extract_research_questions
\* QUESTION\s+(\d): matched at index s; the index after the colon, 0 for no match
MarkerEnd(t, s) ==
  IF s <= Len(t) /\ t[s] = Q
  THEN LET d == SkipSpace(t, s + 1)
       IN IF d > s + 1 /\ d + 1 <= Len(t) /\ IsDigit(t[d]) /\ t[d + 1] = ":"
          THEN d + 2
          ELSE 0
  ELSE 0

\* the lookahead (?=QUESTION\s+\d:|$) at index j; without re.MULTILINE the $
\* holds at the end of the text and before a newline that ends the text
LookaheadAt(t, j) ==
  \/ MarkerEnd(t, j) # 0
  \/ j = Len(t) + 1
  \/ j = Len(t) /\ t[j] = "\n"

\* the whole pattern matched at index s: <<start of group 2, end of the match>>,
\* <<0, 0>> for no match.  \s+ after the colon is greedy and (.*?) is lazy; the
\* greedy choice always succeeds because the lookahead holds at the end of text
MatchAt(t, s) ==
  LET e == MarkerEnd(t, s)
  IN IF e = 0 THEN <<0, 0>>
     ELSE LET g == SkipSpace(t, e)
          IN IF g = e THEN <<0, 0>>
             ELSE <<g, Min({j \in g..(Len(t) + 1) : LookaheadAt(t, j)})>>

\* re.finditer from index pos on: the stripped group 2 of every match
RECURSIVE FindAll(_, _)
FindAll(t, pos) ==
  LET starts == {s \in pos..Len(t) : MatchAt(t, s)[1] # 0}
  IN IF starts = {} THEN <<>>
     ELSE LET s == Min(starts)
              m == MatchAt(t, s)
          IN <<Strip(SubSeq(t, m[1], m[2] - 1))>> \o FindAll(t, m[2])

\* the line-based fallback over a sequence of lines
RECURSIVE LineScan(_)
LineScan(lines) ==
  IF lines = <<>> THEN <<>>
  ELSE LET line == Strip(Head(lines))
           c == IndexOf(line, ":")
       IN (IF line # <<>> /\ line[1] = Q /\ c # 0
           THEN <<Strip(SubSeq(line, c + 1, Len(line)))>>
           ELSE <<>>) \o LineScan(Tail(lines))

\* extract_research_questions falling back whenever the pattern found fewer
\* than three questions
ExtractFallbackWhenShort(text) ==
  LET questions == FindAll(text, 1)
  IN Take(IF Len(questions) < NumQuestions
          THEN LineScan(Split(text, "\n")) ELSE questions,
          NumQuestions)

extract_research_questions(text) ==
  LET questions == FindAll(text, 1)
  IN Take(IF questions = <<>> THEN LineScan(Split(text, "\n")) ELSE questions,
          NumQuestions)

\* ------------------------------------------------------------ the service
\* What client.chat.completions.create can do for one request: raise, return
\* a completion whose message content is null, or return a text.
APIError == <<"<APIError>">>
IsText(reply) == reply # APIError /\ reply # None

ThinkingText == <<"Analyzing with ", "google/gemini-2.0-pro-exp-02-05:free", "...">>
ErrorText(e) == <<"Error: ", e>>

get_completion_with_thinking(reply) ==
  IF reply = APIError
  THEN [thinking |-> ErrorText("APIError"),
        content |-> <<[type |-> "text", text |-> ErrorText("APIError")]>>]
  ELSE [thinking |-> ThinkingText,
        content |-> <<[type |-> "thinking", text |-> ThinkingText],
                      [type |-> "text", text |-> reply]>>]

\* ------------------------------------------------- get_research_questions
Additional(topic) == <<"Additional research direction for ">> \o topic
Aspect(i, topic) == <<"Research aspect ", ToString(i), " of ">> \o topic

\* PadQuestions with the loop bound off by one: "while len(questions) < 2"
RECURSIVE PadQuestionsShort(_, _)
PadQuestionsShort(questions, topic) ==
  IF Len(questions) < NumQuestions - 1
  THEN PadQuestionsShort(Append(questions, Additional(topic)), topic)
  ELSE questions

\* PadQuestions putting the placeholders in front
RECURSIVE PadQuestionsFront(_, _)
PadQuestionsFront(questions, topic) ==
  IF Len(questions) < NumQuestions
  THEN PadQuestionsFront(<<Additional(topic)>> \o questions, topic)
  ELSE questions

\* the while loop of lines 258-259
RECURSIVE PadQuestions(_, _)
PadQuestions(questions, topic) ==
  IF Len(questions) < NumQuestions
  THEN PadQuestions(Append(questions, Additional(topic)), topic)
  ELSE questions

\* the except branch, lines 267-277
QuestionsError(topic, e) ==
  [thinking |-> <<"Error occurred during question generation">>,
   response |-> ErrorText(e),
   questions |-> <<Aspect(1, topic), Aspect(2, topic), Aspect(3, topic)>>]

\* the exception that reading and extracting content[1]["text"] raises, "" for none
ExtractRaises(response) ==
  IF Len(response.content) < 2 THEN "list index out of range"
  ELSE IF response.content[2].text = None
       THEN "expected string or bytes-like object"
       ELSE ""

\* lines 246 and 255, on a response for which ExtractRaises is ""
ExtractedFrom(response) == extract_research_questions(response.content[2].text)

\* NeedsSecondRequest asking again only when nothing was extracted
NeedsSecondRequestWhenEmpty(questions) == Len(questions) = 0

\* line 249: the first extraction fell short, ask again
NeedsSecondRequest(questions) == Len(questions) < NumQuestions

\* lines 258-265
QuestionsReturn(topic, response, questions) ==
  [thinking |-> response.thinking,
   response |-> response.content[2].text,
   questions |-> Take(PadQuestions(questions, topic), NumQuestions)]

\* ------------------------------------------------- get_research_response
AnalysisError(researcher_type, e) ==
  <<"Error in ", researcher_type, " analysis: ", e>>

\* lines 289-303, on the value get_completion_with_thinking returned
get_research_response(response, researcher_type) ==
  IF Len(response.content) < 2
  THEN [thinking |-> AnalysisError(researcher_type, "Invalid response format from API"),
        response |-> AnalysisError(researcher_type, "Invalid response format from API")]
  ELSE [thinking |-> response.thinking,
        response |-> response.content[2].text]

\* ------------------------------------------------------- conduct_research
SystemPrompt(perspective) ==
  CASE perspective = "scientific" -> "SCIENTIFIC_SYSTEM"
    [] perspective = "philosophical" -> "PHILOSOPHICAL_SYSTEM"
    [] perspective = "mathematical" -> "MATHEMATICAL_SYSTEM"

\* lines 340-363: the loop over enumerate(questions) appends three tasks per
\* question; task t (counting from 1) is built in iteration i = question index,
\* and within it in the order scientific, philosophical, mathematical
TaskQuestionIndex(t) == (t - 1) \div NumPerspectives
\* TaskPerspective taking the perspective from the question's index
TaskPerspectiveByQuestion(t) == Perspectives[TaskQuestionIndex(t) + 1]

TaskPerspective(t) == Perspectives[((t - 1) % NumPerspectives) + 1]

BuildTaskInfo(questions) ==
  [t \in 1..(Len(questions) * NumPerspectives) |->
     [question_index |-> TaskQuestionIndex(t),
      perspective |-> TaskPerspective(t)]]

\* the request each coroutine of all_tasks sends (lines 284-285)
BuildAllTasks(questions) ==
  [t \in 1..(Len(questions) * NumPerspectives) |->
     [system |-> SystemPrompt(TaskPerspective(t)),
      user |-> <<"Research question: ">> \o questions[TaskQuestionIndex(t) + 1]]]

\* the text the service returns to the request of task t when it returns one
AnalysisText(t) == <<"analysis ", ToString(t)>>

\* a task that has not returned yet, and a dict slot holding None (lines 390-392)
Pending == [pending |-> TRUE]
NoneDict == [none |-> TRUE]

\* GatherDone resuming the caller as soon as one awaitable is done
GatherDoneFirst(taskResult) == \E t \in DOMAIN taskResult : taskResult[t] # Pending

\* line 379: asyncio.gather resumes its caller once every awaitable is done ...
GatherDone(taskResult) == \A t \in DOMAIN taskResult : taskResult[t] # Pending

\* ... and returns the results in the order of the awaitables passed to it
GatherResults(taskResult) == [t \in DOMAIN taskResult |-> taskResult[t]]

\* MergeOne without the test "if q_idx not in organized_results": the row is
\* created anew for every result
MergeOneFresh(organized, questions, info, result) ==
  LET q_idx == info.question_index
      fresh == [k \in DOMAIN organized \cup {q_idx} |->
                  IF k = q_idx
                  THEN [question |-> questions[q_idx + 1],
                        scientific |-> NoneDict,
                        philosophical |-> NoneDict,
                        mathematical |-> NoneDict]
                  ELSE organized[k]]
  IN [fresh EXCEPT ![q_idx][info.perspective] = result]

\* MergeOne keyed by the question's text instead of its index: the row is that
\* of the first question with the same text
MergeOneByText(organized, questions, info, result) ==
  LET q_idx == Min({k \in 0..(Len(questions) - 1) :
                      questions[k + 1] = questions[info.question_index + 1]})
      known == IF q_idx \in DOMAIN organized THEN organized
               ELSE organized @@
                    (q_idx :> [question |-> questions[q_idx + 1],
                               scientific |-> NoneDict,
                               philosophical |-> NoneDict,
                               mathematical |-> NoneDict])
  IN [known EXCEPT ![q_idx][info.perspective] = result]

\* lines 382-395: one iteration of the merge loop, then the loop
MergeOne(organized, questions, info, result) ==
  LET q_idx == info.question_index
      known == IF q_idx \in DOMAIN organized THEN organized
               ELSE organized @@
                    (q_idx :> [question |-> questions[q_idx + 1],
                               scientific |-> NoneDict,
                               philosophical |-> NoneDict,
                               mathematical |-> NoneDict])
  IN [known EXCEPT ![q_idx][info.perspective] = result]

RECURSIVE Organize(_, _, _, _, _)
Organize(organized, questions, task_info, results, i) ==
  IF i > Len(results) THEN organized
  ELSE Organize(MergeOne(organized, questions, task_info[i], results[i]),
                questions, task_info, results, i + 1)

\* line 398: the rows in ascending key order
RECURSIVE SortedRows(_, _)
SortedRows(organized, keys) ==
  IF keys = {} THEN <<>>
  ELSE LET k == Min(keys)
       IN <<organized[k]>> \o SortedRows(organized, keys \ {k})

\* lines 411-416: print_side_by_side calls text.split() on each of the three
\* responses (line 164), which raises AttributeError on None
PrintRaises(row) ==
  \/ row.scientific.response = None
  \/ row.philosophical.response = None
  \/ row.mathematical.response = None

\* lines 419-431: the entry appended for the i-th row (i counts from 0)
ResultEntry(row, i) ==
  [question |-> row.question,
   question_number |-> i + 1,
   scientific |-> [response |-> row.scientific.response],
   philosophical |-> [response |-> row.philosophical.response],
   mathematical |-> [response |-> row.mathematical.response]]

\* ------------------------------------------------- save_research_to_json
Filename(session_id) ==
  <<"research_outputs", "/research_session_", session_id, ".json">>

\* open(filename, "w") truncates the file before json.dump writes to it: a dump
\* that fails leaves a truncated file behind
Truncated == [truncated |-> TRUE]
SaveOutcomes == {"saved", "open fails", "dump fails"}

WriteFile(files, filename, data, outcome) ==
  CASE outcome = "saved" ->
         [f \in DOMAIN files \cup {filename} |->
            IF f = filename THEN data ELSE files[f]]
    [] outcome = "dump fails" ->
         [f \in DOMAIN files \cup {filename} |->
            IF f = filename THEN Truncated ELSE files[f]]
    [] OTHER -> files

\* ---------------------------------------------------------- the formatter
\* str.split(): the maximal runs of characters that are not whitespace
RECURSIVE SplitWords(_)
SplitWords(s) ==
  LET a == SkipSpace(s, 1)
  IN IF a > Len(s) THEN <<>>
     ELSE LET b == Min({j \in a..(Len(s) + 1) : j = Len(s) + 1 \/ IsSpace(s[j])})
          IN <<SubSeq(s, a, b - 1)>> \o SplitWords(SubSeq(s, b, Len(s)))

\* " " * n and "=" * n, empty when n <= 0
Spaces(n) == [i \in 1..n |-> " "]
Rule(n) == [i \in 1..n |-> "="]

\* ljust that returns the string as it is
ljustNone(s, width) == s

\* str.ljust(width): no padding when the string is as long as width or longer
ljust(s, width) == s \o Spaces(width - Len(s))

\* str.center(width): of an odd padding the left side gets the larger half
\* when width is odd
center(s, width) ==
  LET pad == width - Len(s)
      left == (pad \div 2) + (IF pad % 2 = 1 /\ width % 2 = 1 THEN 1 ELSE 0)
  IN IF pad <= 0 THEN s ELSE Spaces(left) \o s \o Spaces(pad - left)

\* WrapWord cutting a word that starts a new line down to the column width
WrapWordCut(st, word, column_width) ==
  IF Len(st.current_line) + Len(word) + 1 <= column_width
  THEN [st EXCEPT !.current_line =
          IF st.current_line # <<>> THEN st.current_line \o <<" ">> \o word ELSE word]
  ELSE [lines |-> Append(st.lines, ljust(st.current_line, column_width)),
        current_line |-> Take(word, column_width)]

\* lines 165-172: the body of the loop for one word, on the locals
\* st = [lines, current_line]
WrapWord(st, word, column_width) ==
  IF Len(st.current_line) + Len(word) + 1 <= column_width
  THEN [st EXCEPT !.current_line =
          IF st.current_line # <<>> THEN st.current_line \o <<" ">> \o word ELSE word]
  ELSE [lines |-> Append(st.lines, ljust(st.current_line, column_width)),
        current_line |-> word]

\* line 164: the loop over text.split()
RECURSIVE WrapWords(_, _, _)
WrapWords(st, words, column_width) ==
  IF words = <<>> THEN st
  ELSE WrapWords(WrapWord(st, Head(words), column_width), Tail(words), column_width)

format_for_column(text, column_width) ==
  LET st == WrapWords([lines |-> <<>>, current_line |-> <<>>],
                      SplitWords(text), column_width)
  IN IF st.current_line # <<>>
     THEN Append(st.lines, ljust(st.current_line, column_width))
     ELSE st.lines

\* ColumnWidth with an allowance of one character per column
ColumnWidthTight(terminal_width) == (terminal_width \div 3) - 1

\* line 182; // rounds down, as \div does
ColumnWidth(terminal_width) == (terminal_width \div 3) - 2

Max(S) == CHOOSE x \in S : \A y \in S : y <= x

\* lines 191-196: a column padded with blank lines up to max_lines
PadColumn(lines, max_lines, column_width) ==
  lines \o [i \in 1..(max_lines - Len(lines)) |-> Spaces(column_width)]

\* termcolor.colored: the text between the escape sequence of the colour and
\* the reset sequence, neither of which takes room on the terminal
EscapeCodes == {"<green>", "<magenta>", "<cyan>", "<reset>"}
EscapeCode(color) ==
  CASE color = "green" -> "<green>"
    [] color = "magenta" -> "<magenta>"
    [] color = "cyan" -> "<cyan>"
colored(text, color) == <<EscapeCode(color)>> \o text \o <<"<reset>">>
IsVisible(c) == c \notin EscapeCodes
Visible(line) == SelectSeq(line, IsVisible)

Separator == <<" ", "|", " ">>
HeaderScientific == <<"S", "C", "I", "E", "N", "T", "I", "F", "I", "C">>
HeaderPhilosophical ==
  <<"P", "H", "I", "L", "O", "S", "O", "P", "H", "I", "C", "A", "L">>
HeaderMathematical == <<"M", "A", "T", "H", "E", "M", "A", "T", "I", "C", "A", "L">>

\* lines 198-211: the line printed from three cells
PrintedRow(scientific, philosophical, mathematical) ==
  colored(scientific, "green") \o Separator
    \o colored(philosophical, "magenta") \o Separator
    \o colored(mathematical, "cyan")

\* lines 179-211: the padded columns and the lines printed
print_side_by_side(scientific_text, philosophical_text, mathematical_text, terminal_width) ==
  LET column_width == ColumnWidth(terminal_width)
      scientific_wrapped == format_for_column(scientific_text, column_width)
      philosophical_wrapped == format_for_column(philosophical_text, column_width)
      mathematical_wrapped == format_for_column(mathematical_text, column_width)
      max_lines == Max({Len(scientific_wrapped), Len(philosophical_wrapped),
                        Len(mathematical_wrapped)})
      scientific_lines == PadColumn(scientific_wrapped, max_lines, column_width)
      philosophical_lines == PadColumn(philosophical_wrapped, max_lines, column_width)
      mathematical_lines == PadColumn(mathematical_wrapped, max_lines, column_width)
  IN [column_width |-> column_width,
      max_lines |-> max_lines,
      scientific_lines |-> scientific_lines,
      philosophical_lines |-> philosophical_lines,
      mathematical_lines |-> mathematical_lines,
      header |-> <<<<"\n">> \o Rule(terminal_width),
                   PrintedRow(center(HeaderScientific, column_width),
                              center(HeaderPhilosophical, column_width),
                              center(HeaderMathematical, column_width)),
                   Rule(terminal_width)>>,
      body |-> [i \in 1..max_lines |->
                  PrintedRow(scientific_lines[i], philosophical_lines[i],
                             mathematical_lines[i])],
      footer |-> Rule(terminal_width) \o <<"\n">>]

\* --------------------------------------------------------- the environment
\* lines 20-38, run when the module is loaded: the key is read from the
\* environment and the client is constructed with it.  What the constructor
\* of the client library does with a key that is None or empty is not decided
\* by this file: it raises or it returns a client.  get_async_client, the one
\* place that tests the key (line 95), is called from nowhere.
KeySet == <<"k">>
KeyEmpty == <<>>
Keys == {KeySet, KeyEmpty, None}
ClientOutcomes(key) ==
  IF key = None \/ key = KeyEmpty THEN {"created", "raises"} ELSE {"created"}

\* ------------------------------------------------------------------ state
VARIABLES
  pc,               \* where the process is: "import" (the module is being
                    \* loaded), "setup", "prompt", "gen1", "gen2", "gather",
                    \* "display", "save", or ended: "import error" (the client
                    \* constructor raised), "exited", "fatal" (exit(1)), "eof"
                    \* (EOFError from input()), "crashed" (an exception left
                    \* conduct_research); "off" when only a function is run
  OPENROUTER_API_KEY, \* the module constant of line 27: a key, "" or None
  input,            \* what safe_input returned last (main's topic, line 463)
  stdin,            \* the lines still to come on standard input: for each, the
                    \* set of lines the user may type there
  genReplies,       \* what the service may answer to a question-generation request
  anaReplies,       \* the kinds of answer it may give to an analysis request
  now,              \* the clock read by datetime.now()
  session_id,       \* main's session_id (line 451)
  topic,            \* conduct_research's topic
  genSent,          \* question-generation requests sent for this topic
  genLog,           \* the service's answers to them, in order
  questions_result, \* what get_research_questions returned
  research_data,    \* conduct_research's research_data
  all_tasks,        \* the request of each of the nine coroutines
  task_info,        \* conduct_research's task_info
  taskReply,        \* per task, the kind of answer the service gave ("none" yet)
  taskResult,       \* per task, what get_research_response returned, or Pending
  results,          \* what asyncio.gather returned
  all_results,      \* conduct_research's all_results
  row,              \* the index i of the display loop (lines 403-431)
  files,            \* the file system: file name -> content
  saveLog,          \* the outcome of each save_research_to_json call for this topic
  xText,            \* extract_research_questions alone: its argument,
  xBodies,          \* the segment bodies the argument was assembled from,
  xOut,             \* and its result
  fmtText,          \* format_for_column alone: its text,
  fmtWidth,         \* its column_width,
  fmtLines,         \* and its result
  scrTexts,         \* print_side_by_side alone: its three texts,
  scrWidth,         \* the terminal width it finds,
  scrOut            \* and the columns and lines it prints

progVars == <<pc, OPENROUTER_API_KEY, input, stdin, genReplies, anaReplies, now,
              session_id, topic, genSent,
              genLog, questions_result, research_data, all_tasks, task_info,
              taskReply, taskResult, results, all_results, row, files, saveLog>>
extractVars == <<xText, xBodies, xOut>>
formatVars == <<fmtText, fmtWidth, fmtLines, scrTexts, scrWidth, scrOut>>
vars == <<progVars, extractVars, formatVars>>

envVars == <<OPENROUTER_API_KEY, genReplies, anaReplies>>
roundVars == <<topic, genSent, genLog, questions_result, research_data, all_tasks,
               task_info, taskReply, taskResult, results, all_results, row, saveLog>>

\* ------------------------------------------------------------------ inputs
Exit == <<"e", "x", "i", "t">>
TopicT == <<"t">>
TopicU == <<"u">>
Lines == {Exit, <<"E", "X", "I", "T">>, <<>>, <<" ">>, TopicT, TopicU}

Gen(n, body) == <<Q, " ", ToString(n), ":", " ">> \o body
Text0 == <<"n", "o", "n", "e">>
Text1 == Gen(1, <<"A", "?">>)
Text2 == Gen(1, <<"A", "?", "\n">>) \o Gen(2, <<"B", "?">>)
Text3 == Gen(1, <<"A", "?", "\n">>) \o Gen(2, <<"B", "?", "\n">>) \o Gen(3, <<"C", "?">>)
Text4 == Text3 \o <<"\n">> \o Gen(4, <<"D", "?">>)
AllGenReplies == {Text0, Text1, Text2, Text3, Text4, None, APIError}
AllAnaReplies == {"text", "null", "raise"}

\* ------------------------------------------------------------------- Init
NoRound ==
  /\ topic = <<>>
  /\ genSent = 0
  /\ genLog = <<>>
  /\ questions_result = NoneDict
  /\ research_data = NoneDict
  /\ all_tasks = <<>>
  /\ task_info = <<>>
  /\ taskReply = <<>>
  /\ taskResult = <<>>
  /\ results = <<>>
  /\ all_results = <<>>
  /\ row = 0
  /\ saveLog = <<>>

ExtractIdle ==
  /\ xText = <<>>
  /\ xBodies = <<>>
  /\ xOut = None

FormatIdle ==
  /\ fmtText = None
  /\ fmtWidth = 0
  /\ fmtLines = None
  /\ scrTexts = None
  /\ scrWidth = 0
  /\ scrOut = NoneDict

\* the process as asyncio.run(main()) starts it, reading `script` from the user
\* and talking to a service that answers from gen / ana
ProgramAt(start, script, gen, ana) ==
  /\ pc = start
  /\ input = None
  /\ stdin = script
  /\ genReplies = gen
  /\ anaReplies = ana
  /\ now = 0
  /\ session_id = ""
  /\ files = <<>>
  /\ NoRound

InitProgram(script, gen, ana) ==
  /\ ProgramAt("import", script, gen, ana)
  /\ OPENROUTER_API_KEY = KeySet
  /\ ExtractIdle
  /\ FormatIdle

\* ---------------------------------------------------------------- actions
\* lines 20-38: the module is loaded and the client constructed; an exception
\* here ends the process before main is run
Import ==
  /\ pc = "import"
  /\ \E outcome \in ClientOutcomes(OPENROUTER_API_KEY) :
       pc' = IF outcome = "created" THEN "setup" ELSE "import error"
  /\ UNCHANGED <<stdin, input, envVars, now, session_id, roundVars, files,
                 extractVars, formatVars>>

\* lines 448-451: setup_environment, which exits when the output directory
\* cannot be created, then the session id
Setup ==
  /\ pc = "setup"
  /\ \E outcome \in {"ok", "makedirs fails"} :
       IF outcome = "ok"
       THEN /\ pc' = "prompt"
            /\ session_id' = ToString(now)
            /\ now' = now + 1
       ELSE /\ pc' = "fatal"
            /\ UNCHANGED <<session_id, now>>
  /\ UNCHANGED <<stdin, input, envVars, roundVars, files, extractVars, formatVars>>

\* lines 461-473: one pass of the loop up to the first await of conduct_research,
\* which is the first question-generation request (line 243)
Prompt ==
  /\ pc = "prompt"
  /\ IF stdin = <<>>
     THEN /\ pc' = "eof"
          /\ UNCHANGED <<stdin, input, roundVars>>
     ELSE /\ stdin' = Tail(stdin)
          /\ \E line \in Head(stdin) :
               /\ input' = line
               /\ IF Lower(line) = Exit
                  THEN pc' = "exited" /\ UNCHANGED roundVars
                  ELSE IF Strip(line) = <<>>
                  THEN pc' = "prompt" /\ UNCHANGED roundVars
                  ELSE /\ pc' = "gen1"
                       /\ topic' = line
                       /\ genSent' = 1
                       /\ genLog' = <<>>
                       /\ questions_result' = NoneDict
                       /\ research_data' = NoneDict
                       /\ all_tasks' = <<>>
                       /\ task_info' = <<>>
                       /\ taskReply' = <<>>
                       /\ taskResult' = <<>>
                       /\ results' = <<>>
                       /\ all_results' = <<>>
                       /\ row' = 0
                       /\ saveLog' = <<>>
  /\ UNCHANGED <<envVars, now, session_id, files, extractVars, formatVars>>

\* lines 311-379: get_research_questions has returned qr; research_data is set
\* up, the nine coroutines are created and asyncio.gather starts them, each
\* running to its request (line 285)
Launch(qr) ==
  /\ questions_result' = qr
  /\ research_data' =
       [session_id |-> session_id,
        topic |-> topic,
        timestamp |-> now,
        questions_generation |-> [response |-> qr.response,
                                  questions |-> qr.questions],
        research_results |-> <<>>]
  /\ now' = now + 1
  /\ all_tasks' = BuildAllTasks(qr.questions)
  /\ task_info' = BuildTaskInfo(qr.questions)
  /\ taskReply' = [t \in DOMAIN all_tasks' |-> "none"]
  /\ taskResult' = [t \in DOMAIN all_tasks' |-> Pending]
  /\ pc' = "gather"

\* lines 243-265 (and 267-277): the first generation request is answered
GenReply1 ==
  /\ pc = "gen1"
  /\ \E reply \in genReplies :
       LET response == get_completion_with_thinking(reply)
           e == ExtractRaises(response)
       IN /\ genLog' = Append(genLog, reply)
          /\ IF e # ""
             THEN Launch(QuestionsError(topic, e)) /\ UNCHANGED genSent
             ELSE IF NeedsSecondRequest(ExtractedFrom(response))
             THEN /\ pc' = "gen2"
                  /\ genSent' = genSent + 1
                  /\ UNCHANGED <<questions_result, research_data, now, all_tasks,
                                 task_info, taskReply, taskResult>>
             ELSE /\ Launch(QuestionsReturn(topic, response, ExtractedFrom(response)))
                  /\ UNCHANGED genSent
  /\ UNCHANGED <<stdin, input, envVars, session_id, topic, results, all_results, row,
                 files, saveLog, extractVars, formatVars>>

\* lines 253-265 (and 267-277): the second generation request is answered
GenReply2 ==
  /\ pc = "gen2"
  /\ \E reply \in genReplies :
       LET response == get_completion_with_thinking(reply)
           e == ExtractRaises(response)
       IN /\ genLog' = Append(genLog, reply)
          /\ IF e # ""
             THEN Launch(QuestionsError(topic, e))
             ELSE Launch(QuestionsReturn(topic, response, ExtractedFrom(response)))
  /\ UNCHANGED <<stdin, input, envVars, session_id, topic, genSent, results, all_results,
                 row, files, saveLog, extractVars, formatVars>>

\* lines 285-303 and 109-137: the request of task t is answered and its
\* get_research_response returns
ServiceReply(t, kind) ==
  CASE kind = "text" -> AnalysisText(t)
    [] kind = "null" -> None
    [] kind = "raise" -> APIError

Settle(t) ==
  /\ pc = "gather"
  /\ taskResult[t] = Pending
  /\ \E kind \in anaReplies :
       /\ taskReply' = [taskReply EXCEPT ![t] = kind]
       /\ taskResult' =
            [taskResult EXCEPT ![t] =
               get_research_response(
                 get_completion_with_thinking(ServiceReply(t, kind)),
                 task_info[t].perspective)]
  /\ UNCHANGED <<pc, stdin, input, envVars, now, session_id, topic, genSent, genLog,
                 questions_result, research_data, all_tasks, task_info, results,
                 all_results, row, files, saveLog, extractVars, formatVars>>

\* lines 379-398: gather returns and the results are merged
Gather ==
  /\ pc = "gather"
  /\ GatherDone(taskResult)
  /\ results' = GatherResults(taskResult)
  /\ LET organized_results ==
           Organize(<<>>, questions_result.questions, task_info, results', 1)
     IN all_results' = SortedRows(organized_results, DOMAIN organized_results)
  /\ row' = 0
  /\ pc' = "display"
  /\ UNCHANGED <<stdin, input, envVars, now, session_id, topic, genSent, genLog,
                 questions_result, research_data, all_tasks, task_info, taskReply,
                 taskResult, files, saveLog, extractVars, formatVars>>

\* lines 403-431: one iteration of the display loop; leaving the loop reaches
\* the call of save_research_to_json (line 434)
Display ==
  /\ pc = "display"
  /\ IF row >= Len(all_results)
     THEN pc' = "save" /\ UNCHANGED <<row, research_data>>
     ELSE IF PrintRaises(all_results[row + 1])
     THEN pc' = "crashed" /\ UNCHANGED <<row, research_data>>
     ELSE /\ research_data' =
               [research_data EXCEPT !.research_results =
                  Append(@, ResultEntry(all_results[row + 1], row))]
          /\ row' = row + 1
          /\ pc' = "display"
  /\ UNCHANGED <<stdin, input, envVars, now, session_id, topic, genSent, genLog,
                 questions_result, all_tasks, task_info, taskReply, taskResult,
                 results, all_results, files, saveLog, extractVars, formatVars>>

\* lines 434-436, 139-149 and 475: save_research_to_json, then back to the prompt
Save ==
  /\ pc = "save"
  /\ \E outcome \in SaveOutcomes :
       /\ files' = WriteFile(files, Filename(session_id), research_data, outcome)
       /\ saveLog' = Append(saveLog, outcome)
  /\ pc' = "prompt"
  /\ UNCHANGED <<stdin, input, envVars, now, session_id, topic, genSent, genLog,
                 questions_result, research_data, all_tasks, task_info, taskReply,
                 taskResult, results, all_results, row, extractVars, formatVars>>

Next ==
  \/ Import
  \/ Setup
  \/ Prompt
  \/ GenReply1
  \/ GenReply2
  \/ \E t \in DOMAIN taskResult : Settle(t)
  \/ Gather
  \/ Display
  \/ Save

\* one topic, then exit; a generation that falls short twice, so that the
\* second and third question are the same placeholder; every analysis outcome
Init == InitProgram(<<{TopicT}, {Exit}>>, {Text1}, AllAnaReplies)
Spec == Init /\ [][Next]_vars

\* the user types up to MaxInputs lines; the service answers every generation
\* request in any way, and every analysis request with a text
InitQuestions ==
  InitProgram([i \in 1..MaxInputs |-> IF i = 1 THEN {TopicT, TopicU} ELSE {Exit}],
              AllGenReplies, {"text"})
SpecQuestions == InitQuestions /\ [][Next]_vars

\* the user types any MaxInputs lines; the service answers all analysis
\* requests of a run in the same way
InitLoop ==
  \E kind \in AllAnaReplies :
    InitProgram([i \in 1..MaxInputs |-> Lines], {Text2, Text3}, {kind})
SpecLoop == InitLoop /\ [][Next]_vars

\* ------------------------------------- extract_research_questions alone
Alphabet == {Q, " ", "\n", "1", ":", "A"}
Letters == <<"A", "B", "C", "D", "E", "F">>

RECURSIVE TextsUpTo(_)
TextsUpTo(n) ==
  IF n = 0 THEN {<<>>}
  ELSE LET shorter == TextsUpTo(n - 1)
       IN shorter \cup {Append(t, c) : t \in {u \in shorter : Len(u) = n - 1},
                                       c \in Alphabet}

\* the bodies segment k may have: its letter, with or without whitespace around it
SegmentBodies(k) ==
  {lead \o <<Letters[k], "?">> \o trail :
     lead \in {<<>>, <<" ">>}, trail \in {<<>>, <<"\n">>}}

Marker(k) == <<Q, " ", ToString(k), ":">>

RECURSIVE BodyLists(_)
BodyLists(n) ==
  IF n = 0 THEN {<<>>}
  ELSE LET shorter == BodyLists(n - 1)
       IN shorter \cup {Append(bs, b) : bs \in {u \in shorter : Len(u) = n - 1},
                                        b \in SegmentBodies(n)}

RECURSIVE Assemble(_, _)
Assemble(bodies, k) ==
  IF k > Len(bodies) THEN <<>>
  ELSE Marker(k) \o bodies[k] \o Assemble(bodies, k + 1)

\* lines for the fallback: the keyword with a colon, with whitespace around,
\* with a second colon after a marker the pattern does not match, a colon
\* without the keyword, the keyword without a colon, and a line the pattern
\* does match
LineForms ==
  {<<Q, ":", "A">>,
   <<" ", Q, " ", "x", ":", " ", "B", " ">>,
   <<Q, " ", "1", ":", "C", ":", "D">>,
   <<"A", ":", "B">>,
   <<Q, " ", "A">>,
   <<Q, " ", "1", ":", " ", "E">>}

NumLines(t) == Cardinality({i \in 1..Len(t) : t[i] = "\n"}) + 1

RECURSIVE LineTexts(_)
LineTexts(n) ==
  IF n = 1 THEN LineForms
  ELSE LET shorter == LineTexts(n - 1)
       IN shorter \cup {t \o <<"\n">> \o l : t \in {u \in shorter : NumLines(u) = n - 1},
                                              l \in LineForms}

InitExtract ==
  /\ ProgramAt("off", <<>>, {}, {})
  /\ OPENROUTER_API_KEY = KeySet
  /\ FormatIdle
  /\ xOut = None
  /\ \/ /\ xBodies = <<>>
        /\ xText \in TextsUpTo(MaxTextLen) \cup LineTexts(MaxLines)
     \/ /\ xBodies \in BodyLists(MaxSegments) \ {<<>>}
        /\ xText = Assemble(xBodies, 1)

ExtractCall ==
  /\ xOut = None
  /\ xOut' = extract_research_questions(xText)
  /\ UNCHANGED <<progVars, xText, xBodies, formatVars>>

NextExtract == ExtractCall
SpecExtract == InitExtract /\ [][NextExtract]_vars

\* ------------------------------------------------- the environment at start
\* the key is set, empty or absent; one topic, then exit
InitStartup ==
  /\ ProgramAt("import", <<{TopicT}, {Exit}>>, {Text2, Text3}, {"text"})
  /\ OPENROUTER_API_KEY \in Keys
  /\ ExtractIdle
  /\ FormatIdle
SpecStartup == InitStartup /\ [][Next]_vars

\* ------------------------------------------------------ the formatter alone
FormatAlphabet == {"a", "b", " ", "\n"}

RECURSIVE FormatTexts(_)
FormatTexts(n) ==
  IF n = 0 THEN {<<>>}
  ELSE LET shorter == FormatTexts(n - 1)
       IN shorter \cup {Append(t, c) : t \in {u \in shorter : Len(u) = n - 1},
                                       c \in FormatAlphabet}

\* the texts of a cell: none, one word, words that fit one line of a wide
\* column, and a word longer than a narrow column
PrintTexts ==
  {<<>>,
   <<"a">>,
   <<"a", " ", "b">>,
   <<"a", "b", " ", "a">>,
   <<"a", "a", "a", "a", " ", "b", " ", "a">>}

\* column_width as print_side_by_side computes it for a narrow terminal is
\* negative: -2 for a width below 3
InitFormat ==
  /\ ProgramAt("off", <<>>, {}, {})
  /\ OPENROUTER_API_KEY = KeySet
  /\ ExtractIdle
  /\ fmtLines = None
  /\ scrOut = NoneDict
  /\ \/ /\ fmtText \in FormatTexts(MaxFormatLen)
        /\ fmtWidth \in (-2)..MaxColumnWidth
        /\ scrTexts = None
        /\ scrWidth = 0
     \/ /\ scrTexts \in PrintTexts \X PrintTexts \X PrintTexts
        /\ scrWidth \in 1..MaxTerminalWidth
        /\ fmtText = None
        /\ fmtWidth = 0

FormatCall ==
  /\ fmtText # None
  /\ fmtLines = None
  /\ fmtLines' = format_for_column(fmtText, fmtWidth)
  /\ UNCHANGED <<progVars, extractVars, fmtText, fmtWidth, scrTexts, scrWidth, scrOut>>

PrintCall ==
  /\ scrTexts # None
  /\ scrOut = NoneDict
  /\ scrOut' = print_side_by_side(scrTexts[1], scrTexts[2], scrTexts[3], scrWidth)
  /\ UNCHANGED <<progVars, extractVars, fmtText, fmtWidth, fmtLines, scrTexts, scrWidth>>

NextFormat == FormatCall \/ PrintCall
SpecFormat == InitFormat /\ [][NextFormat]_vars

\* ================================================================ claims
\* the nine tasks: three per question, in the order they are created
TaskIds == 1..(NumQuestions * NumPerspectives)
Merged == pc \in {"display", "save"}
Returned == questions_result # NoneDict
Questions == questions_result.questions
Cell(t) == all_results[task_info[t].question_index + 1][task_info[t].perspective]
Failed(t) == taskReply[t] \in {"raise", "null"}
IsErrorMarker(text) == Len(text) > 0 /\ text[1] = "Error in "

\* what the task dispatched as t returns, given the answer the service gave it
OutcomeResult(t) ==
  get_research_response(get_completion_with_thinking(ServiceReply(t, taskReply[t])),
                        task_info[t].perspective)

\* C1: whichever of the nine analysis calls fail, the grid conduct_research
\* builds has exactly three entries, one per question in index order, and in
\* each entry the scientific, philosophical and mathematical results are all
\* non-null when the entry is displayed and when the data is saved
C1_GridFullyPopulated ==
  Merged =>
    /\ Len(all_results) = NumQuestions
    /\ \A i \in 1..Len(all_results) :
         /\ all_results[i].question = Questions[i]
         /\ \A k \in 1..NumPerspectives :
              /\ all_results[i][Perspectives[k]] # NoneDict
              /\ all_results[i][Perspectives[k]] # Pending

\* all nine analysis calls raised and the grid is handed to save_research_to_json
C1_Witness ==
  /\ pc = "save"
  /\ \A t \in TaskIds : taskReply[t] = "raise"

\* C2: a cell of the final grid holds an error marker exactly when the service
\* call of its task failed (raised or returned a malformed response), every
\* other cell holds the text of its own call, and no failure aborts
\* conduct_research
C2_FailureIsolation ==
  /\ pc # "crashed"
  /\ Merged =>
       \A t \in TaskIds :
         /\ Failed(t) <=> IsErrorMarker(Cell(t).response)
         /\ ~Failed(t) => Cell(t).response = AnalysisText(t)

\* C3: the final grid is a function of the tasks' outcomes alone: cell (q, p)
\* holds the result of the task dispatched for question index q and perspective
\* p, also when two questions have the same text, and the rows displayed and
\* saved are in ascending question index with question_number = index + 1
C3_OrderIndependent ==
  /\ Merged =>
       /\ Len(all_results) = NumQuestions
       /\ \A t \in TaskIds : Cell(t) = OutcomeResult(t)
       /\ \A i \in 1..Len(research_data.research_results) :
            LET entry == research_data.research_results[i]
            IN /\ entry.question_number = i
               /\ entry.question = Questions[i]
               /\ \A t \in TaskIds :
                    task_info[t].question_index = i - 1 =>
                      entry[task_info[t].perspective].response
                        = OutcomeResult(t).response
  /\ pc = "save" => Len(research_data.research_results) = NumQuestions
  /\ \A f \in DOMAIN files :
       files[f] # Truncated => files[f] = research_data

\* the second and third question have the same text, their tasks ended
\* differently, and the rows are about to be saved
C3_Witness ==
  /\ pc = "save"
  /\ Questions[2] = Questions[3]
  /\ taskReply[4] = "raise"
  /\ taskReply[7] = "text"
  /\ taskReply[1] = "text"

\* C4: nothing is merged, rendered or written while one of the nine tasks is
\* unsettled
C4_SingleBarrier ==
  (\/ Merged
   \/ results # <<>>
   \/ all_results # <<>>
   \/ saveLog # <<>>
   \/ (research_data # NoneDict /\ research_data.research_results # <<>>))
  => /\ DOMAIN taskResult = TaskIds
     /\ \A t \in TaskIds : taskResult[t] # Pending

\* one row has been rendered, after tasks that raised and tasks that answered
C4_Witness ==
  /\ pc = "display"
  /\ row = 1
  /\ \E t \in TaskIds : taskReply[t] = "raise"
  /\ \E t \in TaskIds : taskReply[t] = "text"

\* whether needle occurs in s as a contiguous substring
Contains(s, needle) ==
  \E i \in 1..(Len(s) - Len(needle) + 1) :
    SubSeq(s, i, i + Len(needle) - 1) = needle

\* the questions extracted from the generation whose text is returned
LastExtracted ==
  IF IsText(genLog[Len(genLog)])
  THEN extract_research_questions(genLog[Len(genLog)])
  ELSE <<>>

\* C5: get_research_questions returns exactly three question strings whatever
\* the service does; what extraction did not supply is a placeholder that
\* contains the topic; no exception leaves get_research_questions
C5_ThreeQuestions ==
  /\ Returned =>
       /\ Len(Questions) = NumQuestions
       /\ \A i \in 1..Len(Questions) :
            IF i <= Len(LastExtracted)
            THEN Questions[i] = LastExtracted[i]
            ELSE Contains(Questions[i], topic)
  /\ pc \in {"crashed", "fatal", "eof"} => (genSent = 0 \/ Returned)

\* the first generation gave one question, the second two: one placeholder
C5_Witness ==
  /\ Returned
  /\ genLog = <<Text1, Text2>>
  /\ Questions[3] = Additional(topic)

\* the number of questions the first generation yielded
FirstYield ==
  IF IsText(genLog[1]) THEN Len(extract_research_questions(genLog[1])) ELSE 0

\* C6, as stated: a second generation request is issued if and only if the
\* first generation yielded fewer than three extracted questions
C6_ReaskIffShort ==
  Returned => (genSent = 2 <=> FirstYield < NumQuestions)

\* C6, amended: a second generation request is issued if and only if the first
\* request returned a text from which fewer than three questions were
\* extracted; it is issued once; when it returns a text the questions are those
\* extracted from that text, padded only then; a request that raises or returns
\* no text ends question generation with the three "Research aspect"
\* placeholders; no submission issues more than two generation requests
C6_ReaskPolicy ==
  /\ genSent <= 2
  /\ Returned =>
       /\ Len(genLog) = genSent
       /\ genSent = 2 <=> (IsText(genLog[1]) /\ FirstYield < NumQuestions)
       /\ IF IsText(genLog[genSent])
          THEN /\ Take(Questions, Len(LastExtracted)) = LastExtracted
               /\ \A i \in (Len(LastExtracted) + 1)..NumQuestions :
                    Questions[i] = Additional(topic)
               /\ Len(LastExtracted) < NumQuestions => genSent = 2
          ELSE Questions = <<Aspect(1, topic), Aspect(2, topic), Aspect(3, topic)>>

\* a re-ask was answered with a text that is still short, and was padded
C6_Witness ==
  /\ Returned
  /\ genSent = 2
  /\ genLog = <<Text0, Text1>>
  /\ Questions = <<<<"A", "?">>, Additional(topic), Additional(topic)>>

\* C7: once save_research_to_json has written the artifact of one submission,
\* no later step modifies or overwrites it
C7_ArtifactImmutable ==
  [][\A f \in DOMAIN files :
       files[f] # Truncated => (f \in DOMAIN files' /\ files'[f] = files[f])]_vars

\* C8: every accepted topic reaches exactly one call of save_research_to_json,
\* made after the grid is complete: the process neither stops nor asks for the
\* next topic before it
C8_ExactlyOneSave ==
  /\ (topic # <<>> /\ pc \in {"prompt", "exited", "eof", "crashed"})
       => Len(saveLog) = 1
  /\ saveLog # <<>> => Len(research_data.research_results) = NumQuestions

\* C9: a failed write is caught, main goes on to the next prompt, and nothing
\* but this round's artifact is lost
C9_FailedSaveConfined ==
  [][(pc = "save" /\ saveLog' # saveLog /\ saveLog'[Len(saveLog')] # "saved")
       => /\ pc' = "prompt"
          /\ research_data' = research_data
          /\ \A f \in DOMAIN files :
               files[f] # Truncated => files'[f] = files[f]]_vars

\* C10: for a text made of segments "QUESTION <n>:" + body, the result is the
\* stripped bodies in order, the first three of them; no result has more than
\* three elements
C10_SegmentsExtracted ==
  xOut # None =>
    /\ Len(xOut) <= NumQuestions
    /\ xBodies # <<>> =>
         xOut = Take([i \in 1..Len(xBodies) |-> Strip(xBodies[i])], NumQuestions)

\* the three columns print_side_by_side has padded, and the number of lines
\* format_for_column returned for each
Columns ==
  <<scrOut.scientific_lines, scrOut.philosophical_lines, scrOut.mathematical_lines>>
WrappedCount(k) == Len(format_for_column(scrTexts[k], scrOut.column_width))
HasWord(line) == \E i \in 1..Len(line) : ~IsSpace(line[i])
IsOneWord(line) == line # <<>> /\ \A i \in 1..Len(line) : ~IsSpace(line[i])
SingleLongWord(line, width) == IsOneWord(line) /\ Len(line) > width

\* C11, as stated: after print_side_by_side wraps and pads, the three columns
\* have the same number of lines, the maximum of the three wrapped line
\* counts, and every line has length exactly column_width, except a line that
\* holds a single word longer than column_width
C11_EqualColumns ==
  scrOut # NoneDict =>
    \A k \in 1..3 :
      /\ Len(Columns[k]) = Max({WrappedCount(j) : j \in 1..3})
      /\ \A i \in 1..Len(Columns[k]) :
           \/ Len(Columns[k][i]) = scrOut.column_width
           \/ SingleLongWord(Columns[k][i], scrOut.column_width)

\* C11, amended: the three columns always have the same number of lines, the
\* maximum of the three wrapped line counts; when the terminal is at least 6
\* wide (column_width >= 0) every line has length exactly column_width, except
\* a line that holds a single word longer than column_width; on a narrower
\* terminal column_width is negative, nothing is padded, and every line is
\* empty or one word
C11_EqualColumnsFromSix ==
  scrOut # NoneDict =>
    /\ scrWidth >= 6 <=> scrOut.column_width >= 0
    /\ \A k \in 1..3 :
         /\ Len(Columns[k]) = Max({WrappedCount(j) : j \in 1..3})
         /\ \A i \in 1..Len(Columns[k]) :
              IF scrWidth >= 6
              THEN \/ Len(Columns[k][i]) = scrOut.column_width
                   \/ SingleLongWord(Columns[k][i], scrOut.column_width)
              ELSE Columns[k][i] = <<>> \/ IsOneWord(Columns[k][i])

\* on a terminal 9 wide, columns of different wrapped heights were padded, and
\* one line holds a word longer than the column
C11_Witness ==
  /\ scrOut # NoneDict
  /\ scrWidth = 9
  /\ WrappedCount(1) > WrappedCount(2)
  /\ WrappedCount(2) > WrappedCount(3)
  /\ Len(Columns[3]) = WrappedCount(1)
  /\ \E i \in 1..Len(Columns[1]) :
       SingleLongWord(Columns[1][i], scrOut.column_width)

\* the words of a sequence of lines, read line by line
RECURSIVE WordsOfLines(_)
WordsOfLines(lines) ==
  IF lines = <<>> THEN <<>>
  ELSE SplitWords(Head(lines)) \o WordsOfLines(Tail(lines))

\* C12: format_for_column never splits, truncates, drops or reorders a word:
\* the words of the returned lines, read in order, are the words of the text,
\* and a word longer than the column width is alone on its line, whole
C12_WordsPreserved ==
  fmtLines # None =>
    /\ WordsOfLines(fmtLines) = SplitWords(fmtText)
    /\ \A i \in 1..Len(fmtLines) :
         \A j \in 1..Len(SplitWords(fmtLines[i])) :
           Len(SplitWords(fmtLines[i])[j]) > fmtWidth
             => fmtLines[i] = SplitWords(fmtLines[i])[j]

\* two words on two lines of text, the second longer than the column
C12_Witness ==
  /\ fmtLines # None
  /\ fmtWidth = 1
  /\ fmtText = <<"b", "\n", "a", "b">>
  /\ Len(fmtLines) > 2

\* C18: format_for_column emits no empty line: every line it returns holds at
\* least one word of the text, a text with no words yields no lines, and the
\* blank lines of a column are those print_side_by_side pads it with
C18_NoEmptyLine ==
  /\ fmtLines # None =>
       /\ \A i \in 1..Len(fmtLines) : HasWord(fmtLines[i])
       /\ SplitWords(fmtText) = <<>> => fmtLines = <<>>
  /\ scrOut # NoneDict =>
       \A k \in 1..3 :
         \A i \in 1..Len(Columns[k]) :
           HasWord(Columns[k][i]) <=> i <= WrappedCount(k)

\* C19: column_width is floor(terminal_width / 3) - 2; on a terminal at least
\* 9 wide it is at least 1, and a printed body row without an over-long word
\* takes 3 * column_width + 6 characters, no more than the terminal width
C19_ColumnWidth ==
  scrOut # NoneDict =>
    /\ 3 * (scrOut.column_width + 2) <= scrWidth
    /\ scrWidth < 3 * (scrOut.column_width + 3)
    /\ scrWidth >= 9 =>
         /\ scrOut.column_width >= 1
         /\ Len(scrOut.body) = scrOut.max_lines
         /\ \A i \in 1..Len(scrOut.body) :
              (\A k \in 1..3 : ~SingleLongWord(Columns[k][i], scrOut.column_width))
                => /\ Len(Visible(scrOut.body[i])) = 3 * scrOut.column_width + 6
                   /\ Len(Visible(scrOut.body[i])) <= scrWidth

\* on the narrowest terminal of the claim a row of three one-character cells
\* fills the whole width
C19_Witness ==
  /\ scrOut # NoneDict
  /\ scrWidth = 9
  /\ scrOut.max_lines >= 2
  /\ \E i \in 1..Len(scrOut.body) :
       /\ \A k \in 1..3 : ~SingleLongWord(Columns[k][i], scrOut.column_width)
       /\ Len(Visible(scrOut.body[i])) = scrWidth

\* a string without a character other than whitespace
Blank(s) == \A i \in 1..Len(s) : IsSpace(s[i])

\* two strings that differ at most in the case of their letters
SameLetters(a, b) ==
  /\ Len(a) = Len(b)
  /\ \A i \in 1..Len(a) : LowerChar(a[i]) = LowerChar(b[i])

\* the step reads a line from the user
ReadLine == pc = "prompt" /\ stdin # <<>>

\* C13: conduct_research is entered only with a topic that holds a character
\* other than whitespace, and it is the line just read; an empty or
\* whitespace-only line leads back to the prompt without a request to the
\* service and without a write
C13_TopicNeverBlank ==
  [][/\ pc' = "gen1" => (ReadLine /\ topic' = input' /\ ~Blank(topic'))
     /\ (ReadLine /\ Blank(input'))
          => /\ pc' = "prompt"
             /\ UNCHANGED <<roundVars, files, now>>]_vars

\* after one topic was researched and saved, a line of one space was read and
\* the prompt is shown again
C13_Witness ==
  /\ pc = "prompt"
  /\ input = <<" ">>
  /\ saveLog = <<"saved">>
  /\ Len(stdin) = MaxInputs - 2

\* the loop of main has ended
Stopped(p) == p \in {"exited", "eof", "crashed"}

\* C14, as stated: the loop stops if and only if the line read is exactly
\* "exit"; every other non-empty line is taken as one topic, and the prompt
\* follows once its orchestration is complete
C14_ExitExact ==
  [][/\ (~Stopped(pc) /\ Stopped(pc')) <=> (ReadLine /\ input' = Exit)
     /\ (ReadLine /\ input' # Exit /\ input' # <<>>)
          => (pc' = "gen1" /\ topic' = input')
     /\ pc = "save" => pc' = "prompt"]_vars

\* C14, amended: a line read stops the loop if and only if it is "exit" up to
\* the case of its letters; a line that is empty or only whitespace leads back
\* to the prompt; every other line is taken as one topic, and the prompt
\* follows the save_research_to_json call of its orchestration.  Without such
\* a line the loop ends only at the end of the input and when
\* conduct_research raises on a response without text
C14_ExitPolicy ==
  [][/\ ReadLine =>
          IF SameLetters(input', Exit) THEN pc' = "exited"
          ELSE IF Blank(input') THEN pc' = "prompt"
          ELSE pc' = "gen1" /\ topic' = input'
     /\ pc = "save" => pc' = "prompt"
     /\ pc' = "exited" => ReadLine
     /\ pc' = "eof" => (pc = "prompt" /\ stdin = <<>>)
     /\ pc' = "crashed" => (pc = "display" /\ PrintRaises(all_results[row + 1]))]_vars

\* "EXIT" was typed after one topic was researched, and the loop has ended
C14_Witness ==
  /\ pc = "exited"
  /\ input = <<"E", "X", "I", "T">>
  /\ saveLog # <<>>

\* C15: when the key is missing or the output directory cannot be created, the
\* process ends before the first prompt: no line is read and no request is sent
KeyMissing == OPENROUTER_API_KEY = None \/ OPENROUTER_API_KEY = KeyEmpty
C15_EnvironmentFatal ==
  (KeyMissing \/ pc = "fatal") =>
    /\ pc \in {"import", "import error", "setup", "fatal"}
    /\ input = None
    /\ genSent = 0
    /\ topic = <<>>

\* the tasks dispatched for question index q and perspective p
TasksOf(q, p) ==
  {t \in DOMAIN task_info :
     task_info[t].question_index = q /\ task_info[t].perspective = p}
Dispatched == pc \in {"gather", "display", "save", "crashed"}

\* C16: a submission dispatches nine tasks, exactly one for each pair of a
\* question index and a perspective, whose request carries the text of that
\* question and the system prompt of that perspective; a task is answered
\* once, and after dispatch no task is started again, retried or cancelled
C16_NineTasks ==
  /\ [](Dispatched =>
          /\ DOMAIN all_tasks = 1..(NumQuestions * NumPerspectives)
          /\ DOMAIN task_info = DOMAIN all_tasks
          /\ DOMAIN taskReply = DOMAIN all_tasks
          /\ \A q \in 0..(NumQuestions - 1) :
               \A k \in 1..NumPerspectives :
                 Cardinality(TasksOf(q, Perspectives[k])) = 1
          /\ \A t \in DOMAIN all_tasks :
               all_tasks[t] =
                 [system |-> SystemPrompt(task_info[t].perspective),
                  user |-> <<"Research question: ">>
                             \o Questions[task_info[t].question_index + 1]]
          /\ pc # "gather" => \A t \in DOMAIN taskReply : taskReply[t] # "none")
  /\ [][(Dispatched /\ pc' # "gen1") =>
          /\ all_tasks' = all_tasks
          /\ task_info' = task_info
          /\ \A t \in DOMAIN taskReply :
               taskReply[t] # "none" =>
                 (taskReply'[t] = taskReply[t] /\ taskResult'[t] = taskResult[t])]_vars

\* the first task raised, the others were answered, and the grid is saved
\* without a second request for the first
C16_Witness ==
  /\ pc = "save"
  /\ taskReply[1] = "raise"
  /\ \A t \in DOMAIN taskReply : t # 1 => taskReply[t] = "text"

\* a line that counts for the fallback, and what it contributes
HasColon(line) == \E i \in 1..Len(line) : line[i] = ":"
Qualifies(line) == Strip(line) # <<>> /\ Strip(line)[1] = Q /\ HasColon(line)
AfterFirstColon(line) ==
  LET l == Strip(line)
      c == CHOOSE i \in 1..Len(l) : l[i] = ":" /\ \A j \in 1..(i - 1) : l[j] # ":"
  IN Strip(SubSeq(l, c + 1, Len(l)))

\* C17: the result is what the pattern found whenever it found anything; only
\* when it found nothing is the result taken from the lines: each line that,
\* trimmed, starts with QUESTION and holds a colon gives the trimmed text after
\* its first colon, in line order (the first three, as for the pattern)
C17_FallbackOnlyWhenEmpty ==
  xOut # None =>
    LET primary == FindAll(xText, 1)
        scanned == SelectSeq(Split(xText, "\n"), Qualifies)
    IN IF primary # <<>>
       THEN xOut = Take(primary, NumQuestions)
       ELSE xOut = Take([i \in 1..Len(scanned) |-> AfterFirstColon(scanned[i])],
                        NumQuestions)

\* the pattern found nothing in three lines, of which the first and the third
\* count for the fallback
C17_Witness ==
  /\ xOut = <<<<"C", ":", "D">>, <<"B">>>>
  /\ FindAll(xText, 1) = <<>>
  /\ NumLines(xText) = 3

\* one recorded generation: the questions are those extracted from its
\* response, then placeholders that name the topic
IsPlaceholder(question, tp) ==
  /\ question # <<>>
  /\ question[1] \in {"Additional research direction for ", "Research aspect "}
  /\ Contains(question, tp)
Consistent(generation, tp) ==
  LET extracted == extract_research_questions(generation.response)
  IN /\ Len(generation.questions) = NumQuestions
     /\ Take(generation.questions, Len(extracted)) = extracted
     /\ \A i \in (Len(extracted) + 1)..NumQuestions :
          IsPlaceholder(generation.questions[i], tp)

\* C20: the questions get_research_questions returns, and those persisted, are
\* the extraction of the returned response, which is the last generation
\* received, followed only by placeholders that name the topic; a question
\* extracted only from a first generation that a re-ask superseded is not
\* among them
C20_TranscriptConsistent ==
  /\ Returned =>
       /\ Consistent(questions_result, topic)
       /\ research_data.questions_generation =
            [response |-> questions_result.response, questions |-> Questions]
       /\ IsText(genLog[Len(genLog)]) => questions_result.response = genLog[Len(genLog)]
       /\ (genSent = 2 /\ IsText(genLog[1])) =>
            LET first == extract_research_questions(genLog[1])
            IN \A i \in 1..Len(first) :
                 (\A j \in 1..Len(LastExtracted) : LastExtracted[j] # first[i])
                   => \A j \in 1..Len(Questions) : Questions[j] # first[i]
  /\ \A f \in DOMAIN files :
       files[f] # Truncated =>
         Consistent(files[f].questions_generation, files[f].topic)

\* the first generation gave two questions, the re-ask one: the second
\* question of the first generation is in neither the result nor the file
C20_Witness ==
  /\ genLog = <<Text2, Text1>>
  /\ Returned
  /\ Questions = <<<<"A", "?">>, Additional(topic), Additional(topic)>>
  /\ \E f \in DOMAIN files :
       files[f] # Truncated /\ files[f].questions_generation.questions = Questions

====
